---- MODULE Spec2Model ----
(***************************************************************************)
(* The chat route of Perplexica (src/app/api/chat/route.ts): the POST      *)
(* handler, the Stream Bridge (handleEmitterEvents) and the History        *)
(* Reconciler (handleHistorySave), over a storage of Chat and Message      *)
(* rows.  One "turn" is one POST request.                                  *)
(***************************************************************************)
EXTENDS Naturals, Sequences, FiniteSets, TLC

(***************************************************************************)
(* Bounds of the model.                                                    *)
(***************************************************************************)
\* Number of POST requests (turns) of one run.
MaxTurns == 2
\* Size of one run: a turn weighs 2, an event of an Answer Stream 1 and a
\* cancellation by the client 1.
MaxLoad == 5

Turns == 1..MaxTurns

\* The t-th value of a pool of opaque values (the last one beyond its end).
Nth(pool, t) == pool[IF t < Len(pool) THEN t ELSE Len(pool)]

(***************************************************************************)
(* JavaScript values.                                                      *)
(***************************************************************************)
\* undefined / a missing property.  obj[undefined] reads the key "undefined".
Undefined == "undefined"
\* The truthiness of a string-or-undefined value ("" and undefined are falsy).
Truthy(v) == v # Undefined /\ v # ""
\* An optional value: <<>> is null/undefined, <<x>> is x.
None == <<>>
Some(x) == <<x>>
IsSome(o) == Len(o) = 1
\* An object is a sequence of [key, val] in insertion order.
HasKey(obj, k) == \E i \in 1..Len(obj) : obj[i].key = k
Get(obj, k) == obj[CHOOSE i \in 1..Len(obj) : obj[i].key = k].val
\* Object.keys(obj)[0]
FirstKey(obj) == IF Len(obj) = 0 THEN Undefined ELSE obj[1].key

(***************************************************************************)
(* The request body and its validation (bodySchema, safeValidateBody).     *)
(* A body is a record message{messageId, chatId, content}, optimizationMode*)
(* focusMode, files, chatModel{provider,name}, embeddingModel{provider,    *)
(* name}; a missing property is Undefined.                                 *)
(***************************************************************************)
OptimizationModes == {"speed", "balanced", "quality"}

\* One issue of a failed parse as safeValidateBody reports it (lines 103-106).
Issue(path, message) == [path |-> path, message |-> message]
\* The issue of a z.string().min(1, message) at a path, if any.
StringIssues(v, path, message) ==
    IF v = Undefined THEN << Issue(path, "Required") >>
    ELSE IF v = "" THEN << Issue(path, message) >>
    ELSE << >>

\* ValidationErrors without the check of focusMode.
ValidationErrorsNoFocusMode(body) ==
    StringIssues(body.message.messageId, "message.messageId",
                 "Message ID is required")
    \o StringIssues(body.message.chatId, "message.chatId", "Chat ID is required")
    \o StringIssues(body.message.content, "message.content",
                    "Message content is required")
    \o (IF body.optimizationMode \in OptimizationModes THEN << >>
        ELSE << Issue("optimizationMode",
                      "Optimization mode must be one of: speed, balanced, quality") >>)

\* bodySchema.safeParse(data).error.errors, mapped to path and message: zod
\* visits every property of the object and collects every issue.
ValidationErrors(body) ==
    StringIssues(body.message.messageId, "message.messageId",
                 "Message ID is required")
    \o StringIssues(body.message.chatId, "message.chatId", "Chat ID is required")
    \o StringIssues(body.message.content, "message.content",
                    "Message content is required")
    \o (IF body.optimizationMode \in OptimizationModes THEN << >>
        ELSE << Issue("optimizationMode",
                      "Optimization mode must be one of: speed, balanced, quality") >>)
    \o StringIssues(body.focusMode, "focusMode", "Focus mode is required")

\* bodySchema.safeParse(data).success
safeValidateBody(body) == ValidationErrors(body) = << >>

(***************************************************************************)
(* Model resolution (POST, lines 280-328).  A catalog is an object         *)
(* provider -> (object name -> [model]).  The result is "throw" when an    *)
(* index is taken of undefined (a TypeError, caught at line 380), else the *)
(* pair of resolved llm and embedding (Undefined when missing).            *)
(***************************************************************************)
Thrown == [thrown |-> TRUE, llm |-> Undefined, embedding |-> Undefined]

ResolveModels(body, chatModelProviders, embeddingModelProviders) ==
    LET cpKey == IF Truthy(body.chatModel.provider)
                 THEN body.chatModel.provider
                 ELSE FirstKey(chatModelProviders)
        epKey == IF Truthy(body.embeddingModel.provider)
                 THEN body.embeddingModel.provider
                 ELSE FirstKey(embeddingModelProviders)
    IN  IF ~HasKey(chatModelProviders, cpKey) THEN Thrown       \* line 290
        ELSE
        LET chatModelProvider == Get(chatModelProviders, cpKey)
            cmKey == IF Truthy(body.chatModel.name)
                     THEN body.chatModel.name
                     ELSE FirstKey(chatModelProvider)
        IN  IF ~HasKey(embeddingModelProviders, epKey) THEN Thrown   \* line 299
            ELSE
            LET embeddingProvider == Get(embeddingModelProviders, epKey)
                emKey == IF Truthy(body.embeddingModel.name)
                         THEN body.embeddingModel.name
                         ELSE FirstKey(embeddingProvider)
            IN  IF ~HasKey(embeddingProvider, emKey) THEN Thrown     \* line 304
                ELSE
                [thrown |-> FALSE,
                 llm |-> IF body.chatModel.provider = "custom_openai"
                         THEN "ChatOpenAI"
                         ELSE IF HasKey(chatModelProvider, cmKey)
                              THEN Get(chatModelProvider, cmKey).model
                              ELSE Undefined,
                 embedding |-> Get(embeddingProvider, emKey).model]

(***************************************************************************)
(* The handler registry (searchHandlers, src/lib/search, not in src/).     *)
(***************************************************************************)
searchHandlers == {"webSearch", "academicSearch"}

(***************************************************************************)
(* The response of POST as a function of the body and the catalogs.        *)
(***************************************************************************)
Resp(status, message) == [status |-> status, message |-> message, error |-> << >>]
NoResponse == Resp(0, "")
\* Response.json({message: 'Invalid request body', error}, {status: 400})
InvalidBody(error) == [status |-> 400, message |-> "Invalid request body",
                       error |-> error]

PostResponse(body, chatModelProviders, embeddingModelProviders) ==
    IF ~safeValidateBody(body) THEN InvalidBody(ValidationErrors(body))
    ELSE IF body.message.content = ""
    THEN Resp(400, "Please provide a message to process")
    ELSE
    LET r == ResolveModels(body, chatModelProviders, embeddingModelProviders)
    IN  IF r.thrown
        THEN Resp(500, "An error occurred while processing chat request")
        ELSE IF ~Truthy(r.llm) THEN Resp(400, "Invalid chat model")
        ELSE IF ~Truthy(r.embedding) THEN Resp(400, "Invalid embedding model")
        ELSE IF body.focusMode \notin searchHandlers
        THEN Resp(400, "Invalid focus mode")
        ELSE Resp(200, "text/event-stream")

(***************************************************************************)
(* Storage (db, chats, messages of src/lib/db, used at lines 152-253).     *)
(* A Chat row is [id, title, createdAt, focusMode, files]; a Message row   *)
(* is [id, chatId, messageId, role, content, sources] with content and     *)
(* sources optional.                                                       *)
(***************************************************************************)
\* getFileDetails(fileId): the descriptor of a file reference.
getFileDetails(f) == [name |-> f, fileId |-> f]
\* files.map(getFileDetails)
FileData(files) == [i \in 1..Len(files) |-> getFileDetails(files[i])]

\* new Date().toString() in the reconciliation of turn t.
DateOf(t) == t

\* db.query.chats.findFirst({where: eq(chats.id, id)})
FindChat(cs, id) ==
    IF \E c \in cs : c.id = id
    THEN Some(CHOOSE c \in cs : c.id = id)
    ELSE None

\* db.query.messages.findFirst({where: eq(messagesSchema.messageId, mid)}):
\* the matching row the table scan meets first, the one of the least id.
FindMessage(ms, mid) ==
    LET hits == {m \in ms : m.messageId = mid}
    IN  IF hits = {} THEN None
        ELSE Some(CHOOSE m \in hits : \A o \in hits : m.id <= o.id)

\* chats.id is the primary key: the storage refuses a second row of an id.
ChatIdTaken(cs, id) == \E c \in cs : c.id = id

\* The sequence number the storage gives the next inserted Message.
NewId(next) == next

\* db.insert(messagesSchema).values(vals).execute()
InsertMessage(ms, next, vals) ==
    ms \cup {[id |-> NewId(next), chatId |-> vals.chatId,
              messageId |-> vals.messageId, role |-> vals.role,
              content |-> vals.content, sources |-> vals.sources]}

\* DeleteAfter with lt in the place of gt.
DeleteAfterLt(ms, after, cid) ==
    {m \in ms : ~(m.id < after /\ m.chatId = cid)}

\* db.delete(messagesSchema).where(and(gt(id, after), eq(chatId, cid)))
DeleteAfter(ms, after, cid) ==
    {m \in ms : ~(m.id > after /\ m.chatId = cid)}

\* db.update(chats).set({files}).where(eq(chats.id, id)) at lines 221-225:
\* the statement is built and dropped, never executed and never awaited.
UpdateChatFiles(cs, id, fileData) == cs

(***************************************************************************)
(* State.                                                                  *)
(***************************************************************************)
VARIABLES
    chats,            \* the Chat rows
    messages,         \* the Message rows
    nextId,           \* the next Message sequence number
    input,            \* the request under resolution (SpecPost only)
    response,         \* per turn: the HTTP response of POST, NoResponse before
    req,              \* per turn: message, files and focusMode of the body
    events,           \* per turn: the events the Answer Stream has emitted
    recievedMessage,  \* per turn: handleEmitterEvents' accumulated text
    frames,           \* per turn: the chunks the client stream has accepted
    writer,           \* per turn: "open", "closed" or "errored"
    unhandled,        \* per turn: the rejected promises nobody handles
    hpc,              \* per turn: where handleHistorySave stands
    messageExists,    \* per turn: handleHistorySave's messageExists (optional)
    lookupAt          \* per turn (history): the number of events of the turn
                      \* delivered when the lookup of messageExists resolved

dbVars == <<chats, messages, nextId>>
bridgeVars == <<events, recievedMessage, frames, writer, unhandled>>
histVars == <<hpc, messageExists, lookupAt>>
vars == <<chats, messages, nextId, input, response, req, events,
          recievedMessage, frames, writer, unhandled, hpc, messageExists,
          lookupAt>>

NoReq == [chatId |-> "", messageId |-> "", content |-> "", files |-> <<>>,
          focusMode |-> ""]
NoInput == <<>>

\* crypto.randomBytes(7).toString('hex') for the assistant message of turn t.
aiMessageId(t) == <<"ai-1", "ai-2", "ai-3", "ai-4">>[t]
\* crypto.randomBytes(7).toString('hex') for a source message of turn t.
sourceMessageId(t) == <<"src-1", "src-2", "src-3", "src-4">>[t]

Streaming(t) == response[t].status = 200

\* The turns submitted so far plus the events delivered so far.
RECURSIVE LoadUpTo(_)
LoadUpTo(t) ==
    IF t = 0 THEN 0
    ELSE (IF response[t] # NoResponse THEN 2 ELSE 0) + Len(events[t])
         + (IF writer[t] = "errored" THEN 1 ELSE 0) + LoadUpTo(t - 1)
Load == LoadUpTo(MaxTurns)

\* No turn has arrived.
InitTurns ==
    /\ response = [t \in Turns |-> NoResponse]
    /\ req = [t \in Turns |-> NoReq]
    /\ events = [t \in Turns |-> <<>>]
    /\ recievedMessage = [t \in Turns |-> ""]
    /\ frames = [t \in Turns |-> <<>>]
    /\ writer = [t \in Turns |-> "none"]
    /\ unhandled = [t \in Turns |-> {}]
    /\ hpc = [t \in Turns |-> "idle"]
    /\ messageExists = [t \in Turns |-> None]
    /\ lookupAt = [t \in Turns |-> 0]

InitState ==
    /\ chats = {}
    /\ messages = {}
    /\ nextId = 1
    /\ InitTurns

Init == InitState /\ input = NoInput

(***************************************************************************)
(* POST (lines 256-387).  Turns are numbered in arrival order.  A request  *)
(* that resolves gets the streaming response; handleEmitterEvents has      *)
(* registered its listeners on the open writer and handleHistorySave has   *)
(* issued its first query.                                                 *)
(***************************************************************************)
POST(t, body, chatModelProviders, embeddingModelProviders) ==
    /\ response[t] = NoResponse
    /\ Load + 2 <= MaxLoad
    /\ \A u \in Turns : u < t => response[u] # NoResponse
    /\ LET r == PostResponse(body, chatModelProviders, embeddingModelProviders)
       IN  /\ response' = [response EXCEPT ![t] = r]
           /\ IF r.status = 200
              THEN /\ req' = [req EXCEPT ![t] =
                                [chatId |-> body.message.chatId,
                                 messageId |-> body.message.messageId,
                                 content |-> body.message.content,
                                 files |-> body.files,
                                 focusMode |-> body.focusMode]]
                   /\ writer' = [writer EXCEPT ![t] = "open"]
                   /\ hpc' = [hpc EXCEPT ![t] = "findChat"]
              ELSE UNCHANGED <<req, writer, hpc>>
    /\ UNCHANGED <<dbVars, input, events, recievedMessage, frames, unhandled,
                   messageExists, lookupAt>>

(***************************************************************************)
(* The client stream (TransformStream, lines 366-373).  A chunk written    *)
(* while the writer is open is accepted; a write or a close on a closed or *)
(* errored writer returns a rejected promise, which the code drops.        *)
(***************************************************************************)
\* JSON.stringify(obj) + tail, as the chunk the encoder produces.
Frame(type, data, messageId, tail) ==
    [type |-> type, data |-> data, messageId |-> messageId, tail |-> tail]

\* WriterWrite with the chunk put in front of the chunks accepted before.
WriterWriteFront(w, fs, chunk) == IF w = "open" THEN << chunk >> \o fs ELSE fs
\* writer.write(chunk): the chunks accepted afterwards.
WriterWrite(w, fs, chunk) == IF w = "open" THEN Append(fs, chunk) ELSE fs
\* writer.close(): the state afterwards.
WriterClose(w) == IF w = "open" THEN "closed" ELSE w
\* The promises of a write and of a close that reject, unhandled.
WriteRejects(w) == IF w = "open" THEN {} ELSE {"write"}
CloseRejects(w) == IF w = "open" THEN {} ELSE {"close"}

\* The client (or the transport) cancels the readable side: the writable side
\* becomes errored.
ClientCancel(t) ==
    /\ Streaming(t)
    /\ Load < MaxLoad
    /\ writer[t] = "open"
    /\ writer' = [writer EXCEPT ![t] = "errored"]
    /\ UNCHANGED <<dbVars, input, response, req, events, recievedMessage,
                   frames, unhandled, histVars>>

(***************************************************************************)
(* The Stream Bridge (handleEmitterEvents, lines 116-195).  The Answer     *)
(* Stream is an opaque EventEmitter: it may emit any event at any time.    *)
(***************************************************************************)
\* The text fragments of an Answer Stream, named in the order it emits them.
ResponseData == <<"a", "b", "c">>
ResponsesOf(t) == SelectSeq(events[t], LAMBDA e : e.type = "response")
NextFragment(t) == Nth(ResponseData, Len(ResponsesOf(t)) + 1)
SourcesData == {"[cite]"}
ErrorData == {"boom"}

Event(type, data) == [type |-> type, data |-> data]

\* BridgeInsert where the insert of a source Message is built and never
\* executed.
BridgeInsertSourceUnexecuted(t, vals, ok, rejects, written) ==
    /\ messages' = IF ok /\ vals.role # "source"
                   THEN InsertMessage(messages, nextId, vals) ELSE messages
    /\ nextId' = IF ok /\ vals.role # "source" THEN nextId + 1 ELSE nextId
    /\ unhandled' = [unhandled EXCEPT ![t] =
                        @ \cup rejects \cup (IF ok THEN {} ELSE {"insert"})]
    /\ frames' = [frames EXCEPT ![t] = written]

\* BridgeInsert where a rejected insert is caught and reported to the client
\* with an error frame.
BridgeInsertSurfaced(t, vals, ok, rejects, written) ==
    /\ messages' = IF ok THEN InsertMessage(messages, nextId, vals) ELSE messages
    /\ nextId' = IF ok THEN nextId + 1 ELSE nextId
    /\ unhandled' = [unhandled EXCEPT ![t] = @ \cup rejects]
    /\ frames' = [frames EXCEPT ![t] =
                    IF ok THEN written
                    ELSE WriterWrite(writer[t], written,
                                     Frame("error", Some("insert"), None, ""))]

\* A fire-and-forget db.insert(...).execute() of the Bridge, the last statement
\* of its listener: it is executed, or the storage rejects it and the
\* rejection is dropped; the chunks written before it stay as they are.
BridgeInsert(t, vals, ok, rejects, written) ==
    /\ messages' = IF ok THEN InsertMessage(messages, nextId, vals) ELSE messages
    /\ nextId' = IF ok THEN nextId + 1 ELSE nextId
    /\ unhandled' = [unhandled EXCEPT ![t] =
                        @ \cup rejects \cup (IF ok THEN {} ELSE {"insert"})]
    /\ frames' = [frames EXCEPT ![t] = written]

\* Accumulate with the fragment put in front of the text.
AccumulatePrepend(text, data) == data \o text

\* recievedMessage += parsedData.data (line 138)
Accumulate(text, data) == text \o data

\* The values of the source Message of a sources event (lines 153-159).
SourceValues(t, data) ==
    [chatId |-> req[t].chatId, messageId |-> sourceMessageId(t),
     role |-> "source", content |-> None, sources |-> Some(data)]

\* The values of the assistant Message of an end event (lines 174-180).
AssistantValues(t) ==
    [chatId |-> req[t].chatId, messageId |-> aiMessageId(t),
     role |-> "assistant", content |-> Some(recievedMessage[t]),
     sources |-> None]

\* stream.on('data') with type 'response' (lines 127-138)
OnResponse(t, data) ==
    /\ Streaming(t)
    /\ Load < MaxLoad
    /\ events' = [events EXCEPT ![t] = Append(@, Event("response", data))]
    /\ frames' = [frames EXCEPT ![t] =
                    WriterWrite(writer[t], @,
                        Frame("message", Some(data), Some(aiMessageId(t)), "\n"))]
    /\ unhandled' = [unhandled EXCEPT ![t] = @ \cup WriteRejects(writer[t])]
    /\ recievedMessage' = [recievedMessage EXCEPT ![t] = Accumulate(@, data)]
    /\ UNCHANGED <<dbVars, input, response, req, writer, histVars>>

\* stream.on('data') with type 'sources' (lines 139-161)
OnSources(t, data, ok) ==
    /\ Streaming(t)
    /\ Load < MaxLoad
    /\ events' = [events EXCEPT ![t] = Append(@, Event("sources", data))]
    /\ BridgeInsert(t, SourceValues(t, data), ok, WriteRejects(writer[t]),
                    WriterWrite(writer[t], frames[t],
                        Frame("sources", Some(data), Some(aiMessageId(t)), "\n")))
    /\ UNCHANGED <<chats, input, response, req, writer, recievedMessage,
                   histVars>>

\* stream.on('end') (lines 163-182)
OnEnd(t, ok) ==
    /\ Streaming(t)
    /\ Load < MaxLoad
    /\ events' = [events EXCEPT ![t] = Append(@, Event("end", ""))]
    /\ writer' = [writer EXCEPT ![t] = WriterClose(@)]
    /\ BridgeInsert(t, AssistantValues(t), ok,
                    WriteRejects(writer[t]) \cup CloseRejects(writer[t]),
                    WriterWrite(writer[t], frames[t],
                        Frame("messageEnd", None, None, "\n")))
    /\ UNCHANGED <<chats, input, response, req, recievedMessage, histVars>>

\* stream.on('error') (lines 183-194)
OnError(t, data) ==
    /\ Streaming(t)
    /\ Load < MaxLoad
    /\ events' = [events EXCEPT ![t] = Append(@, Event("error", data))]
    /\ frames' = [frames EXCEPT ![t] =
                    WriterWrite(writer[t], @, Frame("error", Some(data), None, ""))]
    /\ writer' = [writer EXCEPT ![t] = WriterClose(@)]
    /\ unhandled' = [unhandled EXCEPT ![t] =
                        @ \cup WriteRejects(writer[t]) \cup CloseRejects(writer[t])]
    /\ UNCHANGED <<dbVars, input, response, req, recievedMessage, histVars>>

(***************************************************************************)
(* The History Reconciler (handleHistorySave, lines 197-254).  Each await  *)
(* is one storage operation; the code between two awaits runs with it.     *)
(***************************************************************************)
\* ChatValues with the title taken from message.messageId.
ChatValuesTitleFromId(t) ==
    [id |-> req[t].chatId, title |-> req[t].messageId, createdAt |-> DateOf(t),
     focusMode |-> req[t].focusMode, files |-> FileData(req[t].files)]

\* The values of the Chat of a turn (lines 212-218).
ChatValues(t) ==
    [id |-> req[t].chatId, title |-> req[t].content, createdAt |-> DateOf(t),
     focusMode |-> req[t].focusMode, files |-> FileData(req[t].files)]

\* The values of the user Message of a turn (lines 235-241).
UserValues(t) ==
    [chatId |-> req[t].chatId, messageId |-> req[t].messageId, role |-> "user",
     content |-> Some(req[t].content), sources |-> None]

\* await db.query.chats.findFirst (203-205), then 207-226 up to the next await
HistFindChat(t) ==
    /\ hpc[t] = "findChat"
    /\ LET chat == FindChat(chats, req[t].chatId)
           fileData == FileData(req[t].files)
       IN  /\ IF ~IsSome(chat)
              THEN /\ hpc' = [hpc EXCEPT ![t] = "insertChat"]
                   /\ UNCHANGED chats
              ELSE /\ hpc' = [hpc EXCEPT ![t] = "findMessage"]
                   /\ chats' = IF chat[1].files # fileData
                               THEN UpdateChatFiles(chats, req[t].chatId, fileData)
                               ELSE chats
    /\ UNCHANGED <<messages, nextId, input, response, req,
                   bridgeVars, messageExists, lookupAt>>

\* await db.insert(chats).values(...).execute() (210-219); chats.id is the
\* primary key, so a second row of the same id is refused and the await throws.
HistInsertChat(t) ==
    /\ hpc[t] = "insertChat"
    /\ IF ChatIdTaken(chats, req[t].chatId)
       THEN /\ hpc' = [hpc EXCEPT ![t] = "failed"]
            /\ UNCHANGED chats
       ELSE /\ hpc' = [hpc EXCEPT ![t] = "findMessage"]
            /\ chats' = chats \cup {ChatValues(t)}
    /\ UNCHANGED <<messages, nextId, input, response, req,
                   bridgeVars, messageExists, lookupAt>>

\* await db.query.messages.findFirst (228-230)
HistFindMessage(t) ==
    /\ hpc[t] = "findMessage"
    /\ LET found == FindMessage(messages, req[t].messageId)
       IN  /\ messageExists' = [messageExists EXCEPT ![t] = found]
           /\ lookupAt' = [lookupAt EXCEPT ![t] = Len(events[t])]
           /\ hpc' = [hpc EXCEPT ![t] =
                        IF IsSome(found) THEN "deleteMessages" ELSE "insertMessage"]
    /\ UNCHANGED <<dbVars, input, response, req, bridgeVars>>

\* await db.insert(messagesSchema).values(...).execute() (233-242)
HistInsertMessage(t) ==
    /\ hpc[t] = "insertMessage"
    /\ messages' = InsertMessage(messages, nextId, UserValues(t))
    /\ nextId' = nextId + 1
    /\ hpc' = [hpc EXCEPT ![t] = "done"]
    /\ UNCHANGED <<chats, input, response, req, bridgeVars, messageExists,
                   lookupAt>>

\* await db.delete(messagesSchema).where(...).execute() (244-252)
HistDeleteMessages(t) ==
    /\ hpc[t] = "deleteMessages"
    /\ messages' = DeleteAfter(messages, messageExists[t][1].id, req[t].chatId)
    /\ hpc' = [hpc EXCEPT ![t] = "done"]
    /\ UNCHANGED <<chats, nextId, input, response, req, bridgeVars,
                   messageExists, lookupAt>>

(***************************************************************************)
(* The requests of a run.  Identifiers and contents are opaque, so the     *)
(* turn that arrives t-th chooses among the first t of each pool.          *)
(***************************************************************************)
ChatIds == <<"c1", "c2">>
MessageIds == <<"m1", "m2">>
Contents == <<"hello", "edited">>
FileSets == << <<>>, <<"f1">> >>
FocusModes == <<"webSearch", "academicSearch">>

Pick(pool, t) == {pool[i] : i \in 1..(IF t < Len(pool) THEN t ELSE Len(pool))}

Model(m) == [model |-> m]
\* getAvailableChatModelProviders() / getAvailableEmbeddingModelProviders()
StdChatCatalog ==
    << [key |-> "openai", val |-> << [key |-> "gpt", val |-> Model("llm-gpt")] >>] >>
StdEmbeddingCatalog ==
    << [key |-> "openai", val |-> << [key |-> "ada", val |-> Model("emb-ada")] >>] >>

NoOverride == [provider |-> Undefined, name |-> Undefined]

Body(chatId, messageId, content, focusMode, files, chatModel, embeddingModel) ==
    [message |-> [messageId |-> messageId, chatId |-> chatId, content |-> content],
     optimizationMode |-> "balanced",
     focusMode |-> focusMode,
     files |-> files,
     chatModel |-> chatModel,
     embeddingModel |-> embeddingModel]

Submit(t) ==
    \E c \in Pick(ChatIds, t), m \in Pick(MessageIds, t),
       f \in Pick(FileSets, t), fm \in {Nth(FocusModes, t), "unknownMode"} :
        POST(t, Body(c, m, Nth(Contents, t), fm, f, NoOverride, NoOverride),
             StdChatCatalog, StdEmbeddingCatalog)

Next ==
    \E t \in Turns :
        \/ Submit(t)
        \/ ClientCancel(t)
        \/ OnResponse(t, NextFragment(t))
        \/ \E d \in SourcesData, ok \in BOOLEAN : OnSources(t, d, ok)
        \/ \E ok \in BOOLEAN : OnEnd(t, ok)
        \/ \E d \in ErrorData : OnError(t, d)
        \/ HistFindChat(t)
        \/ HistInsertChat(t)
        \/ HistFindMessage(t)
        \/ HistInsertMessage(t)
        \/ HistDeleteMessages(t)

Spec == Init /\ [][Next]_vars

(***************************************************************************)
(* Turns on a storage that earlier turns have filled.  In History1 one     *)
(* turn {c1, m1} was reconciled.  In History2 two first-time turns {c2,    *)
(* m1} and {c1, m1} ran together, each looked m1 up before the other had   *)
(* inserted it, and both inserted their user Message.                      *)
(***************************************************************************)
StoredChat(id) ==
    [id |-> id, title |-> "draft", createdAt |-> 0, focusMode |-> "webSearch",
     files |-> FileData(<< >>)]
StoredUserMessage(id, chatId, messageId) ==
    [id |-> id, chatId |-> chatId, messageId |-> messageId, role |-> "user",
     content |-> Some("draft"), sources |-> None]
History1 ==
    [chats |-> {StoredChat("c1")},
     messages |-> {StoredUserMessage(1, "c1", "m1")},
     nextId |-> 2]
History2 ==
    [chats |-> {StoredChat("c1"), StoredChat("c2")},
     messages |-> {StoredUserMessage(1, "c2", "m1"),
                   StoredUserMessage(2, "c1", "m1")},
     nextId |-> 3]

InitHistory ==
    /\ \E h \in {History1, History2} :
           /\ chats = h.chats
           /\ messages = h.messages
           /\ nextId = h.nextId
    /\ InitTurns
    /\ input = NoInput

SpecHistory == InitHistory /\ [][Next]_vars

(***************************************************************************)
(* POST as a function of one request: its body and the two catalogs are    *)
(* drawn in the initial state and POST answers it.                         *)
(***************************************************************************)
EmptyProvider == << [key |-> "openai", val |-> << >>] >>
BrokenModel == << [key |-> "openai", val |-> << [key |-> "gpt", val |-> Model(Undefined)] >>] >>
BrokenEmbedding == << [key |-> "openai", val |-> << [key |-> "ada", val |-> Model(Undefined)] >>] >>
CustomChatCatalog ==
    StdChatCatalog \o << [key |-> "custom_openai", val |-> << [key |-> "custom", val |-> Model("llm-custom")] >>] >>

ChatCatalogs == {<< >>, StdChatCatalog, CustomChatCatalog, EmptyProvider, BrokenModel}
EmbeddingCatalogs == {<< >>, StdEmbeddingCatalog, EmptyProvider, BrokenEmbedding}
ChatOverrides ==
    [provider : {Undefined, "openai", "nowhere", "custom_openai"},
     name : {Undefined, "gpt", "nomodel"}]
EmbeddingOverrides ==
    [provider : {Undefined, "openai", "nowhere"},
     name : {Undefined, "ada", "nomodel"}]
PostBodies ==
    [message : [messageId : {"m1"}, chatId : {"c1"}, content : {"hello", ""}],
     optimizationMode : {"balanced", "fastest"},
     focusMode : {Undefined, "", "webSearch", "unknownMode"},
     files : {<< >>},
     chatModel : ChatOverrides,
     embeddingModel : EmbeddingOverrides]

InitPost ==
    /\ InitState
    /\ input \in {Some(i) : i \in [body : PostBodies,
                                     chatModelProviders : ChatCatalogs,
                                     embeddingModelProviders : EmbeddingCatalogs]}

PostStep ==
    /\ input # NoInput
    /\ POST(1, input[1].body, input[1].chatModelProviders,
            input[1].embeddingModelProviders)

SpecPost == InitPost /\ [][PostStep]_vars

(***************************************************************************)
(* Vocabulary of the properties.                                           *)
(***************************************************************************)
Terminal(e) == e.type \in {"end", "error"}
Terminated(t) == \E i \in 1..Len(events[t]) : Terminal(events[t][i])
\* The position of the first end or error event of turn t.
FirstTerminal(t) ==
    CHOOSE i \in 1..Len(events[t]) :
        Terminal(events[t][i]) /\ \A j \in 1..(i - 1) : ~Terminal(events[t][j])
TerminatesWith(t, type) ==
    Terminated(t) /\ events[t][FirstTerminal(t)].type = type
\* The Answer Stream has just terminated: its last event is its only end or error.
JustTerminatedWith(t, type) ==
    TerminatesWith(t, type) /\ FirstTerminal(t) = Len(events[t])

RECURSIVE ConcatData(_)
ConcatData(seq) ==
    IF seq = << >> THEN "" ELSE Head(seq).data[1] \o ConcatData(Tail(seq))
RECURSIVE ConcatEventData(_)
ConcatEventData(seq) ==
    IF seq = << >> THEN "" ELSE Head(seq).data \o ConcatEventData(Tail(seq))

\* The concatenation of the response fragments among the first n events.
FragmentsBefore(t, n) ==
    ConcatEventData(SelectSeq(SubSeq(events[t], 1, n),
                              LAMBDA e : e.type = "response"))
\* The concatenation of the payloads of the message frames the client got.
FramePayload(t) ==
    ConcatData(SelectSeq(frames[t], LAMBDA f : f.type = "message"))

TerminalFrame(f) == f.type \in {"messageEnd", "error"}
AssistantRows(t) ==
    {m \in messages : m.role = "assistant" /\ m.messageId = aiMessageId(t)}
SourceRows(t) ==
    {m \in messages : m.role = "source" /\ m.messageId = sourceMessageId(t)}
BridgeRows(t) == AssistantRows(t) \cup SourceRows(t)

\* The user Messages already stored for the chatId and messageId of turn t.
ExistingUserRows(t) ==
    {m \in messages : /\ m.role = "user"
                      /\ m.chatId = req[t].chatId
                      /\ m.messageId = req[t].messageId}
\* Turn t found its own chat's user Message and is to delete what follows it.
Resubmission(t) ==
    /\ IsSome(messageExists[t])
    /\ messageExists[t][1].role = "user"
    /\ messageExists[t][1].chatId = req[t].chatId
    /\ messageExists[t][1].messageId = req[t].messageId
\* The step of turn t that executes the delete of handleHistorySave.
DeleteStep(t) == hpc[t] = "deleteMessages" /\ hpc'[t] = "done"

(***************************************************************************)
(* C1: for every sequence of events, the frames the client gets hold       *)
(* exactly one terminal frame (messageEnd or error) once the stream has    *)
(* terminated on an open connection, that frame is the last one, and an    *)
(* event arriving after the first end or error is ignored: it writes no    *)
(* frame, changes no Bridge state, persists nothing and fails nothing.     *)
(***************************************************************************)
C1_FramesWellTerminated ==
    \A t \in Turns :
        LET last == {i \in 1..Len(frames[t]) : TerminalFrame(frames[t][i])}
        IN  /\ Cardinality(last) <= 1
            /\ last \subseteq {Len(frames[t])}
            /\ Terminated(t) /\ writer[t] # "errored" => last # {}
C1_LateEventIgnored ==
    \A t \in Turns :
        Terminated(t) /\ events'[t] # events[t] =>
            /\ frames'[t] = frames[t]
            /\ recievedMessage'[t] = recievedMessage[t]
            /\ messages' = messages
            /\ unhandled'[t] = unhandled[t]
C1_OneTerminalFrameLateEventsIgnored ==
    [] C1_FramesWellTerminated /\ [][C1_LateEventIgnored]_vars

(***************************************************************************)
(* C2: when the Answer Stream terminates with end, the content of the      *)
(* assistant Message persisted is the concatenation, in arrival order, of  *)
(* the response fragments received before end.  As stated, it is also the  *)
(* concatenation of the payloads of the message frames written to the      *)
(* client (C2_ContentIsFramePayload); that part holds only while the       *)
(* client has not cancelled the stream (C2_ContentIsConcatenation).        *)
(***************************************************************************)
C2_ContentIsFramePayload ==
    \A t \in Turns :
        JustTerminatedWith(t, "end") =>
            /\ \A m \in AssistantRows(t) :
                    m.content = Some(FragmentsBefore(t, Len(events[t])))
            /\ FramePayload(t) = FragmentsBefore(t, Len(events[t]))
C2_ContentIsConcatenation ==
    \A t \in Turns :
        /\ \A m \in AssistantRows(t) :
                \E i \in 1..Len(events[t]) :
                    /\ events[t][i].type = "end"
                    /\ m.content = Some(FragmentsBefore(t, i))
        /\ JustTerminatedWith(t, "end") =>
                \A m \in AssistantRows(t) :
                    m.content = Some(FragmentsBefore(t, Len(events[t])))
        /\ TerminatesWith(t, "end") /\ writer[t] # "errored" =>
                FramePayload(t) = FragmentsBefore(t, FirstTerminal(t))
C2_Witness ==
    \E t \in Turns :
        /\ JustTerminatedWith(t, "end")
        /\ Len(events[t]) = 3
        /\ writer[t] = "closed"
        /\ FramePayload(t) = "ab"
        /\ \E m \in AssistantRows(t) : m.content = Some("ab")

(***************************************************************************)
(* C3: the step that completes handleHistorySave for a resubmission        *)
(* removes every Message of the chat stored with a sequence number greater *)
(* than the existing user Message, and a turn that finds its user Message  *)
(* inserts no user Message: its lookup leads to the delete and the delete  *)
(* inserts nothing.                                                        *)
(***************************************************************************)
C3_StepRemovesLaterMessages ==
    \A t \in Turns :
        /\ DeleteStep(t) =>
            /\ \A u \in ExistingUserRows(t) \cup
                        (IF Resubmission(t) THEN {messageExists[t][1]} ELSE {}) :
                   \A m \in messages :
                       m.chatId = req[t].chatId /\ m.id > u.id => m \notin messages'
            /\ messages' \subseteq messages
        /\ hpc[t] = "findMessage" /\ hpc'[t] # hpc[t] /\ ExistingUserRows(t) # {} =>
            /\ hpc'[t] = "deleteMessages"
            /\ messages' = messages
C3_ResubmissionRemovesLaterMessages == [][C3_StepRemovesLaterMessages]_vars
C3_Witness ==
    \E t \in Turns :
        /\ hpc[t] = "done"
        /\ Resubmission(t)
        /\ messageExists[t][1] \in messages
        /\ nextId > messageExists[t][1].id + 1
        /\ \A m \in messages :
               m.chatId = req[t].chatId => m.id <= messageExists[t][1].id

(***************************************************************************)
(* C4: a source or assistant Message that the Bridge of a resubmitted turn *)
(* inserts is never deleted by that turn's reconciliation, provided the    *)
(* lookup of the existing user Message resolved before the Bridge's first  *)
(* persistence write.                                                      *)
(***************************************************************************)
NoBridgeWriteBeforeLookup(t) ==
    \A i \in 1..lookupAt[t] : events[t][i].type \notin {"sources", "end"}
C4_StepKeepsOwnOutput ==
    \A t \in Turns :
        DeleteStep(t) /\ Resubmission(t) /\ NoBridgeWriteBeforeLookup(t) =>
            \A m \in BridgeRows(t) : m \in messages'
C4_OwnOutputNeverDeleted == [][C4_StepKeepsOwnOutput]_vars

(***************************************************************************)
(* C5: for a resubmitted turn, the delete of the later Messages is         *)
(* executed before the first frame of the turn is written and before any   *)
(* output of the turn is persisted: while the delete is pending the turn   *)
(* has written no frame and the Bridge has issued no persistence write.    *)
(***************************************************************************)
C5_DeleteBeforeOutput ==
    \A t \in Turns :
        hpc[t] = "deleteMessages" /\ Resubmission(t) =>
            /\ frames[t] = << >>
            /\ \A i \in 1..Len(events[t]) :
                   events[t][i].type \notin {"sources", "end"}

(***************************************************************************)
(* C6: for every event sequence, repeated end events and an end after an   *)
(* error included, at most one assistant Message is stored for a turn.     *)
(***************************************************************************)
C6_AtMostOneAssistantMessage ==
    \A t \in Turns : Cardinality(AssistantRows(t)) <= 1

(***************************************************************************)
(* C7: when the Answer Stream terminates with error, the Bridge has        *)
(* persisted no Message for the turn, neither an assistant Message nor a   *)
(* source Message.                                                         *)
(***************************************************************************)
C7_NothingPersistedOnError ==
    \A t \in Turns : JustTerminatedWith(t, "error") => BridgeRows(t) = {}

(***************************************************************************)
(* C8: when handleHistorySave has passed its chat step for a turn on an    *)
(* existing chat, the stored Chat.files are the file descriptors derived   *)
(* from the files of that turn.                                            *)
(***************************************************************************)
C8_StepStoresFiles ==
    \A t \in Turns :
        hpc[t] = "findChat" /\ hpc'[t] = "findMessage" =>
            \A c \in chats' : c.id = req[t].chatId => c.files = FileData(req[t].files)
C8_FilesFollowLatestTurn == [][C8_StepStoresFiles]_vars

(***************************************************************************)
(* C9: the turn whose reconciliation inserts while its chatId has no Chat  *)
(* creates exactly one Chat, titled with the turn's content; there is      *)
(* never more than one Chat of an id, and no step changes the title, the   *)
(* focusMode or the createdAt of an existing Chat or removes it.           *)
(***************************************************************************)
C9_OneChatPerId ==
    \A c, d \in chats : c.id = d.id => c = d
C9_StepCreatesOrKeeps ==
    /\ \A t \in Turns :
           /\ hpc[t] = "insertChat" /\ hpc'[t] # hpc[t]
           /\ ~ \E c \in chats : c.id = req[t].chatId
           => /\ \E c \in chats' : /\ c.id = req[t].chatId
                                   /\ c.title = req[t].content
                                   /\ c.focusMode = req[t].focusMode
              /\ Cardinality(chats') = Cardinality(chats) + 1
    /\ \A c \in chats :
           \E d \in chats' : /\ d.id = c.id
                             /\ d.title = c.title
                             /\ d.focusMode = c.focusMode
                             /\ d.createdAt = c.createdAt
    /\ (\A t \in Turns : ~(hpc[t] = "insertChat" /\ hpc'[t] = "findMessage"))
           => Cardinality(chats') = Cardinality(chats)
SelectionMissing(catalog, override) ==
    LET provider == IF Truthy(override.provider) THEN override.provider
                    ELSE FirstKey(catalog)
    IN  \/ Len(catalog) = 0
        \/ ~HasKey(catalog, provider)
        \/ LET models == Get(catalog, provider)
               name == IF Truthy(override.name) THEN override.name
                       ELSE FirstKey(models)
           IN  ~HasKey(models, name)
C10_MissingModelIs400 ==
    input # NoInput /\ response[1] # NoResponse =>
        LET i == input[1]
        IN  /\ safeValidateBody(i.body)
            /\ i.body.chatModel.provider # "custom_openai"
            /\ \/ SelectionMissing(i.chatModelProviders, i.body.chatModel)
               \/ SelectionMissing(i.embeddingModelProviders, i.body.embeddingModel)
            => /\ response[1].status = 400
               /\ response[1].message \in {"Invalid chat model",
                                           "Invalid embedding model"}

(***************************************************************************)
(* C11 (under SpecPost): a request whose body lacks focusMode is answered  *)
(* 400.  As stated, the body of the response carries the message 'Invalid  *)
(* focus mode' (C11_MissingFocusModeMessage); the request is refused by    *)
(* the validation of the body instead, with the message 'Invalid request   *)
(* body' and an error entry that names the path focusMode                  *)
(* (C11_MissingFocusModeIsInvalidBody).                                    *)
(***************************************************************************)
LacksFocusMode == input # NoInput /\ input[1].body.focusMode = Undefined
C11_MissingFocusModeMessage ==
    LacksFocusMode /\ response[1] # NoResponse =>
        /\ response[1].status = 400
        /\ response[1].message = "Invalid focus mode"
C11_MissingFocusModeIsInvalidBody ==
    LacksFocusMode /\ response[1] # NoResponse =>
        /\ response[1].status = 400
        /\ response[1].message = "Invalid request body"
        /\ \E i \in 1..Len(response[1].error) :
               response[1].error[i] = Issue("focusMode", "Required")
        /\ ~Streaming(1)
C11_Witness ==
    /\ LacksFocusMode
    /\ response[1].status = 400
    /\ response[1].error = << Issue("focusMode", "Required") >>
    /\ ~ResolveModels(input[1].body, input[1].chatModelProviders,
                      input[1].embeddingModelProviders).thrown

(***************************************************************************)
(* C12: once the client has closed the connection before the Answer Stream *)
(* terminated, every later write or close on the writer is a no-op that    *)
(* leaves no unhandled failure, and the Bridge still issues the source and *)
(* assistant persistence writes of the events that arrive afterwards.      *)
(***************************************************************************)
\* The step delivers an event of the given type to the Bridge of turn t.
Delivers(t, type) ==
    /\ Len(events'[t]) = Len(events[t]) + 1
    /\ events'[t][Len(events'[t])].type = type
\* The step executes one insert of a Message with the given values.
Inserts(vals) ==
    /\ nextId' = nextId + 1
    /\ messages' = InsertMessage(messages, nextId, vals)
C12_NoFailureAfterCancel ==
    \A t \in Turns :
        writer[t] = "errored" => unhandled[t] \cap {"write", "close"} = {}
C12_StepAfterCancel ==
    \A t \in Turns :
        writer[t] = "errored" =>
            /\ frames'[t] = frames[t]
            /\ writer'[t] = writer[t]
            /\ \A d \in SourcesData :
                   Delivers(t, "sources") /\ "insert" \notin unhandled'[t]
                       => Inserts(SourceValues(t, d))
            /\ Delivers(t, "end") /\ "insert" \notin unhandled'[t]
                   => Inserts(AssistantValues(t))
C12_WritesAfterCancelAreNoOps ==
    [] C12_NoFailureAfterCancel /\ [][C12_StepAfterCancel]_vars

(***************************************************************************)
(* C13: a persistence write of the Bridge that fails (the insert of a      *)
(* source Message or of the assistant Message) never changes the client    *)
(* stream: the listener whose insert fails has written the frame of its    *)
(* event and nothing else, no error frame appears without an error event,  *)
(* and a turn with a failed insert has the frames of its events, up to the *)
(* frame of its first end or error or up to a cancellation by the client.  *)
(***************************************************************************)
\* The frame the Bridge writes for an event of turn t.
FrameOf(t, e) ==
    IF e.type = "response"
    THEN Frame("message", Some(e.data), Some(aiMessageId(t)), "\n")
    ELSE IF e.type = "sources"
    THEN Frame("sources", Some(e.data), Some(aiMessageId(t)), "\n")
    ELSE IF e.type = "end" THEN Frame("messageEnd", None, None, "\n")
    ELSE Frame("error", Some(e.data), None, "")
\* The frames of the events of turn t up to its first end or error.
Relay(t) ==
    LET n == IF Terminated(t) THEN FirstTerminal(t) ELSE Len(events[t])
    IN  [i \in 1..n |-> FrameOf(t, events[t][i])]
IsPrefix(p, q) == Len(p) <= Len(q) /\ SubSeq(q, 1, Len(p)) = p
\* The step delivers a sources or end event whose insert the storage rejects.
FailedInsertStep(t) ==
    /\ Delivers(t, "sources") \/ Delivers(t, "end")
    /\ messages' = messages
C13_FramesOfFailedTurn ==
    \A t \in Turns :
        "insert" \in unhandled[t] =>
            /\ IsPrefix(frames[t], Relay(t))
            /\ writer[t] # "errored" => frames[t] = Relay(t)
C13_FailedStepWritesItsFrame ==
    \A t \in Turns :
        FailedInsertStep(t) =>
            /\ frames'[t] = WriterWrite(writer[t], frames[t],
                                        FrameOf(t, events'[t][Len(events'[t])]))
            /\ \A u \in Turns : u # t => frames'[u] = frames[u]
C13_FailedWriteLeavesStream ==
    [] C13_FramesOfFailedTurn /\ [][C13_FailedStepWritesItsFrame]_vars
C13_Witness ==
    \E t \in Turns :
        /\ "insert" \in unhandled[t]
        /\ BridgeRows(t) = {}
        /\ Len(events[t]) = 3
        /\ events[t][1].type = "sources"
        /\ JustTerminatedWith(t, "end")
        /\ frames[t] = Relay(t)
        /\ writer[t] = "closed"

(***************************************************************************)
(* C14: resubmission is detected per chat.  A turn whose messageId is      *)
(* stored only on a Message of another chat is treated as a new turn: its  *)
(* lookup leads to the insert of its user Message in its own chat, and no  *)
(* step of its reconciliation deletes a Message.                           *)
(***************************************************************************)
\* The messageId of turn t is stored, but on no Message of the turn's chat.
StoredOnlyElsewhere(t) ==
    /\ \E m \in messages : m.messageId = req[t].messageId
    /\ \A m \in messages :
           m.messageId = req[t].messageId => m.chatId # req[t].chatId
\* The step of turn t in which the lookup of messageExists resolves.
LookupStep(t) == hpc[t] = "findMessage" /\ hpc'[t] # hpc[t]
C14_StepTreatsAsNewTurn ==
    \A t \in Turns :
        /\ LookupStep(t) /\ StoredOnlyElsewhere(t) => hpc'[t] = "insertMessage"
        /\ DeleteStep(t) => Resubmission(t)
C14_ResubmissionDetectedPerChat == [][C14_StepTreatsAsNewTurn]_vars

(***************************************************************************)
(* C15: for a first-time turn, under every interleaving of the Bridge and  *)
(* the Reconciler, the user Message of the turn has a smaller sequence     *)
(* number than every source and assistant Message stored for the turn.     *)
(***************************************************************************)
\* Turn t found no Message of its messageId: it is a first-time turn.
FirstTime(t) ==
    hpc[t] \in {"insertMessage", "done"} /\ ~IsSome(messageExists[t])
C15_UserMessageFirst ==
    \A t \in Turns :
        FirstTime(t) =>
            \A u \in ExistingUserRows(t), m \in BridgeRows(t) : u.id < m.id

(***************************************************************************)
(* C16: within a turn whose Answer Stream emits end only after all its     *)
(* sources events, the insert of every source Message is issued in the     *)
(* listener of its sources event, before the insert of the assistant       *)
(* Message, so every source Message of the turn has a smaller sequence     *)
(* number than the assistant Message of the turn.                          *)
(***************************************************************************)
\* No sources event of turn t follows an end event of the turn.
EndAfterSources(t) ==
    \A i, j \in 1..Len(events[t]) :
        events[t][i].type = "end" /\ events[t][j].type = "sources" => j < i
C16_SourcesBelowAssistant ==
    \A t \in Turns :
        EndAfterSources(t) =>
            \A m \in SourceRows(t), a \in AssistantRows(t) : m.id < a.id
C16_StepIssuesInsert ==
    \A t \in Turns :
        /\ Delivers(t, "sources") /\ "insert" \notin unhandled'[t] =>
               /\ Inserts(SourceValues(t, events'[t][Len(events'[t])].data))
               /\ \A a \in AssistantRows(t)' : a \in messages
        /\ Delivers(t, "end") /\ "insert" \notin unhandled'[t] =>
               /\ Inserts(AssistantValues(t))
               /\ \A m \in messages' : m.id <= nextId
C16_SourceInsertsBeforeAssistant ==
    [] C16_SourcesBelowAssistant /\ [][C16_StepIssuesInsert]_vars
C16_Witness ==
    \E t \in Turns :
        /\ Len(events[t]) = 3
        /\ events[t][1].type = "sources"
        /\ events[t][2].type = "response"
        /\ JustTerminatedWith(t, "end")
        /\ \E m \in SourceRows(t), a \in AssistantRows(t) : m.id < a.id

(***************************************************************************)
(* C17: for every first-time turn that reaches streaming, the user Message *)
(* with the content of the turn is eventually persisted, whatever the      *)
(* Answer Stream does and whatever other turns run on the same chatId:     *)
(* once handleHistorySave has returned or thrown, the Message is stored.   *)
(***************************************************************************)
\* No other turn carries the chatId and messageId of turn t, so no Message of
\* them is stored unless turn t stores it.
OnlyTurnOfItsMessage(t) ==
    \A u \in Turns :
        u # t /\ Streaming(u) =>
            ~(req[u].chatId = req[t].chatId /\ req[u].messageId = req[t].messageId)
\* handleHistorySave of turn t has returned ("done") or thrown ("failed").
Reconciled(t) == hpc[t] \in {"done", "failed"}
C17_UserMessagePersisted ==
    \A t \in Turns :
        Streaming(t) /\ OnlyTurnOfItsMessage(t) /\ Reconciled(t) =>
            \E m \in ExistingUserRows(t) : m.content = Some(req[t].content)

(***************************************************************************)
(* C18 (under SpecHistory): the reconciliation of a resubmitted turn       *)
(* changes nothing except deleting the Messages of the same chat with a    *)
(* strictly greater sequence number: the existing user Message, with its   *)
(* content, every Message of the chat up to it and every Message of any    *)
(* other chat are left as they are, and no Chat changes.                   *)
(***************************************************************************)
C18_StepKeepsTheRest ==
    \A t \in Turns :
        /\ DeleteStep(t) /\ ExistingUserRows(t) # {} =>
            /\ messages' \subseteq messages
            /\ chats' = chats
            /\ \A u \in ExistingUserRows(t) :
                   /\ u \in messages'
                   /\ \A m \in messages :
                          m.chatId = req[t].chatId /\ m.id <= u.id => m \in messages'
            /\ \A m \in messages : m.chatId # req[t].chatId => m \in messages'
        /\ LookupStep(t) /\ ExistingUserRows(t) # {} =>
            messages' = messages /\ chats' = chats
C18_ResubmissionOnlyDeletesLater == [][C18_StepKeepsTheRest]_vars

(***************************************************************************)
(* C19: the frames written to the client are in one-to-one, order-         *)
(* preserving correspondence with the response and sources events received *)
(* before termination: each event produces exactly one frame of its type   *)
(* with its data, after the frames of the earlier events, nothing merged   *)
(* and nothing buffered.  As stated (C19_FramesMatchEvents) this fails     *)
(* once the client has cancelled the stream: the events received after the *)
(* cancellation produce no frame.  It holds for the events received while  *)
(* the connection is open (C19_FramesRelayEvents).                         *)
(***************************************************************************)
\* The frames of the response and sources events before the first end or error.
DataRelay(t) ==
    SelectSeq(Relay(t), LAMBDA f : f.type \in {"message", "sources"})
DataFrames(t) ==
    SelectSeq(frames[t], LAMBDA f : f.type \in {"message", "sources"})
C19_FramesMatchEvents ==
    \A t \in Turns : DataFrames(t) = DataRelay(t)
C19_FramesFollowEvents ==
    \A t \in Turns :
        /\ IsPrefix(frames[t], Relay(t))
        /\ writer[t] # "errored" => frames[t] = Relay(t)
C19_StepWritesOneFrame ==
    \A t \in Turns :
        /\ events'[t] # events[t] /\ writer[t] = "open" =>
               frames'[t] = Append(frames[t],
                                   FrameOf(t, events'[t][Len(events'[t])]))
        /\ events'[t] = events[t] \/ writer[t] # "open" => frames'[t] = frames[t]
C19_FramesRelayEvents ==
    [] C19_FramesFollowEvents /\ [][C19_StepWritesOneFrame]_vars
C19_Witness ==
    \E t \in Turns :
        /\ writer[t] = "open"
        /\ Len(events[t]) = 3
        /\ frames[t] = << Frame("message", Some("a"), Some(aiMessageId(t)), "\n"),
                          Frame("sources", Some("[cite]"), Some(aiMessageId(t)), "\n"),
                          Frame("message", Some("b"), Some(aiMessageId(t)), "\n") >>

(***************************************************************************)
(* C20: every record written to the client stream, of every type (message, *)
(* sources, messageEnd, error), is one JSON object terminated by a         *)
(* newline.                                                                *)
(***************************************************************************)
C20_EveryFrameNewlineTerminated ==
    \A t \in Turns :
        \A i \in 1..Len(frames[t]) :
            /\ frames[t][i].type \in {"message", "sources", "messageEnd", "error"}
            /\ frames[t][i].tail = "\n"

====
